---- MODULE Spec2Model ----
(***************************************************************************)
(* Python Quiz Master: the question bank (chatbot.py), the HTTP API        *)
(* (main.py) and the command-line quiz loop (chatbot.py).                  *)
(*                                                                         *)
(* Text that the program takes apart (URL path segments, the submitted     *)
(* answer, a line typed at the prompt) is a sequence of one-character      *)
(* strings; text that it only carries around is a string.                  *)
(***************************************************************************)
EXTENDS Integers, Sequences, FiniteSets, TLC

VARIABLES
    request,         \* API: the HTTP request being served
    routed,          \* API: endpoint function of the route that matched ("" if none)
    response,        \* API: the HTTP response sent back
    pc,              \* CLI: "Start", "Ask" (blocked in input()) or "Terminated"
    questions,       \* CLI: run_quiz_loop's local list `questions` (bank ids)
    shuffled,        \* CLI: run_quiz_loop's local list `shuffled`
    pos,             \* CLI: 1-based position of the for loop in `shuffled`
    score,           \* CLI: correct answers
    total_answered,  \* CLI: non-skip answers
    raw,             \* CLI: the line last read by input()
    choice,          \* CLI: what ask_for_choice last returned ("" before/invalid)
    out,             \* CLI: the lines printed since the previous input() call
    presented,       \* CLI: questions printed so far in the current pass (history)
    letter_inputs    \* CLI: letters a..d accepted at the prompt so far (history)

apiVars == <<request, routed, response>>
cliVars == <<pc, questions, shuffled, pos, score, total_answered, raw, choice, out,
             presented, letter_inputs>>
vars == <<request, routed, response, pc, questions, shuffled, pos, score,
          total_answered, raw, choice, out, presented, letter_inputs>>

(***************************************************************************)
(* Bounds of the model.                                                    *)
(***************************************************************************)
MaxSegLen == 2       \* characters in the {question_id} path segment
MaxAnswerLen == 2    \* characters in a submitted answer
MaxBodyId == 7       \* |question_id| in a submitted body
MaxAnswered == 2     \* letter answers given in one CLI run

(***************************************************************************)
(* chatbot.py: the question bank.                                          *)
(***************************************************************************)
LETTER_KEYS == <<"a", "b", "c", "d">>

Question(text, opts, key, expl) ==
    [question_text |-> text, options |-> opts,
     correct_option_key |-> key, explanation |-> expl]

build_questions ==
    << Question("What is the correct file extension for Python files?",
                <<".pyt", ".pt", ".py", ".python">>, "c",
                ".py is the standard extension for Python source files."),
       Question("Which keyword is used to define a function in Python?",
                <<"func", "def", "function", "define">>, "b",
                "Functions in Python are defined using the 'def' keyword."),
       Question("How do you write a comment in Python?",
                <<"// comment", "<!-- comment -->", "/* comment */", "# comment">>, "d",
                "Python uses the hash symbol (#) for single-line comments."),
       Question("What is the output type of input() in Python 3?",
                <<"int", "str", "float", "bool">>, "b",
                "input() returns a string. Convert it if you need another type."),
       Question("Which of the following is a valid list in Python?",
                <<"{1, 2, 3}", "(1, 2, 3)", "[1, 2, 3]", "<1, 2, 3>">>, "c",
                "Lists use square brackets, e.g., [1, 2, 3].") >>

\* main.py: QUESTIONS = build_questions(), indexed from 0
QUESTIONS == build_questions
NumQuestions == Len(QUESTIONS)
QuestionAt(question_id) == QUESTIONS[question_id + 1]

\* tuple.index(x): 0-based position of the first occurrence
TupleIndex(t, x) ==
    CHOOSE i \in 0..(Len(t) - 1) :
        /\ t[i + 1] = x
        /\ \A j \in 0..(i - 1) : t[j + 1] # x

(***************************************************************************)
(* Characters and str methods.                                             *)
(***************************************************************************)
UpperOf == [c \in {"a", "b", "c", "d", "q", "s"} |->
              CASE c = "a" -> "A" [] c = "b" -> "B" [] c = "c" -> "C"
                [] c = "d" -> "D" [] c = "q" -> "Q" [] c = "s" -> "S"]

\* str.lower() on one character
LowerChar(c) ==
    IF \E l \in DOMAIN UpperOf : UpperOf[l] = c
    THEN CHOOSE l \in DOMAIN UpperOf : UpperOf[l] = c
    ELSE c

\* str.lower()
Lower(s) == [i \in 1..Len(s) |-> LowerChar(s[i])]

Whitespace == {" ", "\t"}

\* str.strip()
Strip(s) ==
    LET keep == {i \in 1..Len(s) : s[i] \notin Whitespace}
    IN  IF keep = {} THEN <<>>
        ELSE LET lo == CHOOSE i \in keep : \A j \in keep : i <= j
                 hi == CHOOSE i \in keep : \A j \in keep : j <= i
             IN  SubSeq(s, lo, hi)

Digits == {"0", "1", "2", "3", "4", "5", "6", "7", "8", "9"}

DigitVal(c) ==
    CASE c = "0" -> 0 [] c = "1" -> 1 [] c = "2" -> 2 [] c = "3" -> 3
      [] c = "4" -> 4 [] c = "5" -> 5 [] c = "6" -> 6 [] c = "7" -> 7
      [] c = "8" -> 8 [] c = "9" -> 9

RECURSIVE DigitsVal(_)
DigitsVal(s) ==
    IF s = <<>> THEN 0
    ELSE 10 * DigitsVal(SubSeq(s, 1, Len(s) - 1)) + DigitVal(s[Len(s)])

\* whether a path segment parses as an int (optional sign, then digits)
IsIntText(s) ==
    /\ Len(s) >= 1
    /\ LET ds == IF s[1] = "-" THEN Tail(s) ELSE s
       IN  /\ Len(ds) >= 1
           /\ \A i \in 1..Len(ds) : ds[i] \in Digits

\* the int a path segment parses to
ParseInt(s) ==
    IF s[1] = "-" THEN 0 - DigitsVal(Tail(s)) ELSE DigitsVal(s)

\* all sequences over alphabet A of length lo..hi
SeqsOf(A, lo, hi) == UNION {[1..n -> A] : n \in lo..hi}

(***************************************************************************)
(* main.py: response models and the helper.                                *)
(***************************************************************************)
Restrict(d, fields) == [f \in fields |-> d[f]]

\* class QuestionResponse: the declared fields are kept, any other is dropped
QuestionResponse(d) == Restrict(d, {"id", "question_text", "options"})

\* class QuestionDetailResponse
QuestionDetailResponse(d) ==
    Restrict(d, {"id", "question_text", "options", "correct_option_key", "explanation"})

\* class AnswerResponse
AnswerResponse(correct, key, text, expl) ==
    [is_correct |-> correct, correct_answer |-> key,
     correct_answer_text |-> text, explanation |-> expl]

question_to_response(question, question_id, include_answer) ==
    IF include_answer
    THEN [id |-> question_id,
          question_text |-> question.question_text,
          options |-> question.options,
          correct_option_key |-> question.correct_option_key,
          explanation |-> question.explanation]
    ELSE [id |-> question_id,
          question_text |-> question.question_text,
          options |-> question.options]

Resp(status, body) == [status |-> status, body |-> body]

\* NotFound with the wrong status code
NotFoundAsBadRequest(question_id) ==
    Resp(400, [detail |-> [not_found_id |-> question_id, first_id |-> 0,
                           last_id |-> Len(QUESTIONS) - 1]])

\* raise HTTPException(status_code=404, detail=f"Question with ID {id} not found.
\* Available IDs: 0-{len(QUESTIONS)-1}")
NotFound(question_id) ==
    Resp(404, [detail |-> [not_found_id |-> question_id, first_id |-> 0,
                           last_id |-> Len(QUESTIONS) - 1]])

\* the framework's answer to a request that fails validation of its declared
\* parameters: the endpoint function is not called
ValidationError(errors) == Resp(422, [detail |-> errors])

\* `if question_id < 0 or question_id >= len(QUESTIONS)`
OutOfRange(question_id) == question_id < 0 \/ question_id >= Len(QUESTIONS)

(***************************************************************************)
(* main.py: the endpoint functions. Each yields the set of responses it    *)
(* can return (one, except where random is drawn).                         *)
(***************************************************************************)
root ==
    {Resp(200, [message |-> "Python Quiz API", version |-> "1.0.0",
                endpoints |-> [questions |-> "/api/questions",
                               random_question |-> "/api/questions/random",
                               submit_answer |-> "/api/quiz/submit",
                               health |-> "/api/health",
                               stats |-> "/api/stats",
                               docs |-> "/docs"]])}

health_check == {Resp(200, [status |-> "healthy", message |-> "API is running"])}

get_stats == {Resp(200, [total_questions |-> Len(QUESTIONS)])}

get_all_questions ==
    {Resp(200, [i \in 1..Len(QUESTIONS) |->
                  QuestionResponse(question_to_response(QUESTIONS[i], i - 1, FALSE))])}

\* get_question answering with the detail model
get_question_with_answer(question_id) ==
    IF OutOfRange(question_id)
    THEN {NotFound(question_id)}
    ELSE {Resp(200, QuestionDetailResponse(
                      question_to_response(QuestionAt(question_id), question_id, TRUE)))}

get_question(question_id) ==
    IF OutOfRange(question_id)
    THEN {NotFound(question_id)}
    ELSE {Resp(200, QuestionResponse(
                      question_to_response(QuestionAt(question_id), question_id, FALSE)))}

\* random.randint(0, len(QUESTIONS) - 1): both ends included
get_random_question ==
    {Resp(200, QuestionResponse(
                 question_to_response(QuestionAt(question_id), question_id, FALSE))) :
       question_id \in 0..(Len(QUESTIONS) - 1)}

get_question_detail(question_id) ==
    IF OutOfRange(question_id)
    THEN {NotFound(question_id)}
    ELSE {Resp(200, QuestionDetailResponse(
                      question_to_response(QuestionAt(question_id), question_id, TRUE)))}

\* `request.answer.lower() == question.correct_option_key.lower()`
AnswerMatches(answer, key) == Lower(answer) = Lower(<<key>>)

\* CorrectAnswerText with the index taken one option too early
CorrectAnswerTextOffByOne(question) ==
    question.options[TupleIndex(LETTER_KEYS, question.correct_option_key)]

\* `correct_idx = LETTER_KEYS.index(key); question.options[correct_idx]`
CorrectAnswerText(question) ==
    question.options[TupleIndex(LETTER_KEYS, question.correct_option_key) + 1]

submit_answer(req) ==
    IF OutOfRange(req.question_id)
    THEN {NotFound(req.question_id)}
    ELSE LET question == QuestionAt(req.question_id)
         IN  {Resp(200, AnswerResponse(
                          AnswerMatches(req.answer, question.correct_option_key),
                          question.correct_option_key,
                          CorrectAnswerText(question),
                          question.explanation))}

(***************************************************************************)
(* main.py: class AnswerSubmitRequest.                                     *)
(***************************************************************************)
\* Field(..., ge=0)
QuestionIdAllowed(n) == n >= 0

\* AnswerAllowed with a pattern that ignores case
AnswerAllowedAnyCase(s) == Len(s) = 1 /\ LowerChar(s[1]) \in {"a", "b", "c", "d"}

\* Field(..., pattern="^[a-d]$")
AnswerAllowed(s) == Len(s) = 1 /\ s[1] \in {"a", "b", "c", "d"}

FieldError(name, type) == [loc |-> <<"body", name>>, type |-> type]

AnswerSubmitRequestErrors(body) ==
    (IF "question_id" \notin DOMAIN body
     THEN {FieldError("question_id", "missing")}
     ELSE IF ~QuestionIdAllowed(body.question_id)
          THEN {FieldError("question_id", "greater_than_equal")}
          ELSE {})
    \cup
    (IF "answer" \notin DOMAIN body
     THEN {FieldError("answer", "missing")}
     ELSE IF ~AnswerAllowed(body.answer)
          THEN {FieldError("answer", "string_pattern_mismatch")}
          ELSE {})

(***************************************************************************)
(* main.py: the routes, in the order the decorators register them, and the *)
(* dispatch of a request: the first route whose path and method match.     *)
(***************************************************************************)
SegApi == <<"a", "p", "i">>
SegHealth == <<"h", "e", "a", "l", "t", "h">>
SegStats == <<"s", "t", "a", "t", "s">>
SegQuestions == <<"q", "u", "e", "s", "t", "i", "o", "n", "s">>
SegRandom == <<"r", "a", "n", "d", "o", "m">>
SegDetail == <<"d", "e", "t", "a", "i", "l">>
SegQuiz == <<"q", "u", "i", "z">>
SegSubmit == <<"s", "u", "b", "m", "i", "t">>

Lit(seg) == [kind |-> "lit", text |-> seg]
Param == [kind |-> "param", text |-> <<>>]    \* {question_id}

Route(method, path, endpoint) ==
    [method |-> method, path |-> path, endpoint |-> endpoint]

Routes ==
    << Route("GET", <<>>, "root"),
       Route("GET", <<Lit(SegApi), Lit(SegHealth)>>, "health_check"),
       Route("GET", <<Lit(SegApi), Lit(SegStats)>>, "get_stats"),
       Route("GET", <<Lit(SegApi), Lit(SegQuestions)>>, "get_all_questions"),
       Route("GET", <<Lit(SegApi), Lit(SegQuestions), Param>>, "get_question"),
       Route("GET", <<Lit(SegApi), Lit(SegQuestions), Lit(SegRandom)>>,
             "get_random_question"),
       Route("GET", <<Lit(SegApi), Lit(SegQuestions), Param, Lit(SegDetail)>>,
             "get_question_detail"),
       Route("POST", <<Lit(SegApi), Lit(SegQuiz), Lit(SegSubmit)>>, "submit_answer") >>

\* a {param} matches any non-empty segment; a literal matches itself
PathMatches(route, path) ==
    /\ Len(route.path) = Len(path)
    /\ \A i \in 1..Len(path) :
          IF route.path[i].kind = "lit"
          THEN route.path[i].text = path[i]
          ELSE Len(path[i]) >= 1

\* the segment bound to {question_id}
PathParam(route, path) ==
    path[CHOOSE i \in 1..Len(path) : route.path[i].kind = "param"]

\* index of the route that serves the request, 0 if no route does
MatchingRoute(req) ==
    LET full == {i \in 1..Len(Routes) :
                    PathMatches(Routes[i], req.path) /\ Routes[i].method = req.method}
    IN  IF full = {} THEN 0
        ELSE CHOOSE i \in full : \A j \in full : i <= j

\* `question_id: int` of a path operation: the segment does not parse
PathIdInvalid ==
    ValidationError({[loc |-> <<"path", "question_id">>, type |-> "int_parsing"]})

\* `request: AnswerSubmitRequest` of submit_answer
WithSubmitBody(req) ==
    IF AnswerSubmitRequestErrors(req.body) = {}
    THEN submit_answer(req.body)
    ELSE {ValidationError(AnswerSubmitRequestErrors(req.body))}

Invoke(route, req) ==
    CASE route.endpoint = "root" -> root
      [] route.endpoint = "health_check" -> health_check
      [] route.endpoint = "get_stats" -> get_stats
      [] route.endpoint = "get_all_questions" -> get_all_questions
      [] route.endpoint = "get_question" ->
            IF IsIntText(PathParam(route, req.path))
            THEN get_question(ParseInt(PathParam(route, req.path)))
            ELSE {PathIdInvalid}
      [] route.endpoint = "get_random_question" -> get_random_question
      [] route.endpoint = "get_question_detail" ->
            IF IsIntText(PathParam(route, req.path))
            THEN get_question_detail(ParseInt(PathParam(route, req.path)))
            ELSE {PathIdInvalid}
      [] route.endpoint = "submit_answer" -> WithSubmitBody(req)

\* the (endpoint, response) pairs the application can answer a request with
Serve(req) ==
    LET i == MatchingRoute(req)
    IN  IF i = 0
        THEN IF \E j \in 1..Len(Routes) : PathMatches(Routes[j], req.path)
             THEN {<<"", Resp(405, [detail |-> "Method Not Allowed"])>>}
             ELSE {<<"", Resp(404, [detail |-> "Not Found"])>>}
        ELSE {<<Routes[i].endpoint, r>> : r \in Invoke(Routes[i], req)}

(***************************************************************************)
(* The requests a client sends.                                            *)
(***************************************************************************)
NoBody == [none |-> TRUE]

Get(path) == [method |-> "GET", path |-> path, body |-> NoBody]
Post(path, body) == [method |-> "POST", path |-> path, body |-> body]

\* texts put in place of {question_id}
IdSegments == SeqsOf(Digits \cup {"-", "x"}, 1, MaxSegLen)

\* JSON strings sent as "answer"
AnswerTexts == SeqsOf({"a", "b", "c", "d", "e", "C"}, 0, MaxAnswerLen)

\* JSON integers sent as "question_id"
BodyIds == (0 - MaxBodyId)..MaxBodyId

SubmitBodies ==
    {[question_id |-> n, answer |-> a] : n \in BodyIds, a \in AnswerTexts}
    \cup {[question_id |-> n] : n \in BodyIds}
    \cup {[answer |-> a] : a \in AnswerTexts}
    \cup {[comment |-> "no field"]}

SubmitPath == <<SegApi, SegQuiz, SegSubmit>>
QuestionPath(seg) == <<SegApi, SegQuestions, seg>>
DetailPath(seg) == <<SegApi, SegQuestions, seg, SegDetail>>
RandomPath == <<SegApi, SegQuestions, SegRandom>>

\* no request is being served
NoRequest == [method |-> "", path |-> <<>>, body |-> NoBody]
NoResponse == Resp(0, [detail |-> "no request served yet"])
Idle == request = NoRequest

\* the application answers req
Answers(req) == \E sr \in Serve(req) : routed' = sr[1] /\ response' = sr[2]

RequestRoot ==
    /\ Idle
    /\ request' = Get(<<>>)
    /\ Answers(request')
    /\ UNCHANGED cliVars

RequestHealth ==
    /\ Idle
    /\ request' = Get(<<SegApi, SegHealth>>)
    /\ Answers(request')
    /\ UNCHANGED cliVars

RequestStats ==
    /\ Idle
    /\ request' = Get(<<SegApi, SegStats>>)
    /\ Answers(request')
    /\ UNCHANGED cliVars

RequestQuestions ==
    /\ Idle
    /\ request' = Get(<<SegApi, SegQuestions>>)
    /\ Answers(request')
    /\ UNCHANGED cliVars

RequestQuestion ==
    /\ Idle
    /\ \E seg \in IdSegments : request' = Get(QuestionPath(seg))
    /\ Answers(request')
    /\ UNCHANGED cliVars

RequestRandom ==
    /\ Idle
    /\ request' = Get(RandomPath)
    /\ Answers(request')
    /\ UNCHANGED cliVars

RequestDetail ==
    /\ Idle
    /\ \E seg \in IdSegments : request' = Get(DetailPath(seg))
    /\ Answers(request')
    /\ UNCHANGED cliVars

RequestSubmit ==
    /\ Idle
    /\ \E body \in SubmitBodies : request' = Post(SubmitPath, body)
    /\ Answers(request')
    /\ UNCHANGED cliVars

\* a path no route has, and a method the path's route does not take
RequestUnrouted ==
    /\ Idle
    /\ request' \in {Get(SubmitPath), Post(<<SegApi, SegQuestions>>, NoBody),
                     Get(<<SegApi, SegQuiz>>), Get(<<SegQuestions>>)}
    /\ Answers(request')
    /\ UNCHANGED cliVars

\* the response has been sent; the server waits for the next request
Close ==
    /\ ~Idle
    /\ request' = NoRequest
    /\ routed' = ""
    /\ response' = NoResponse
    /\ UNCHANGED cliVars

(***************************************************************************)
(* chatbot.py: the command-line quiz. A question is held by its bank id.   *)
(***************************************************************************)
Line(kind, n1, n2, s1, s2) == [kind |-> kind, n1 |-> n1, n2 |-> n2, s1 |-> s1, s2 |-> s2]

\* print_greeting()
GreetingLine == Line("Greeting", 0, 0, "", "")

\* print(format_question(q)): the text and the four lettered options
QuestionLine(q) == Line("Question", q, 0, QuestionAt(q).question_text, "")

\* "Please enter a valid choice: ..."
GuidanceLine == Line("Guidance", 0, 0, "", "")

\* f"Exiting quiz. You answered {total_answered} question(s) with {score} correct."
ExitLine(answered, correct) == Line("Exit", answered, correct, "", "")

SkippedLine == Line("Skipped", 0, 0, "", "")
CorrectLine == Line("Correct", 0, 0, "", "")

\* f"Incorrect. The correct answer is '{key}) {correct_text}'."
IncorrectLine(q) ==
    Line("Incorrect", 0, 0, QuestionAt(q).correct_option_key,
         CorrectAnswerText(QuestionAt(q)))

ExplanationLine(q) == Line("Explanation", 0, 0, QuestionAt(q).explanation, "")

\* f"Score: {score}/{total_answered}"
ScoreLine(correct, answered) == Line("Score", correct, answered, "", "")

\* lines typed at the prompt
RawInputs ==
    { <<"a">>, <<"b">>, <<"c">>, <<"d">>, <<"q">>, <<"s">>,
      <<"Q">>, <<" ", "C", " ">>, <<"S", "\t">>, <<"\t", "d">>,
      <<>>, <<" ">>, <<"x">>, <<"a", " ", "b">> }

\* raw before the first input() call
NoInput == <<"(nothing read yet)">>

\* Normalise without strip()
NormaliseUnstripped(line) == Lower(line)

\* ask_for_choice: `input(prompt_text).strip().lower()`
Normalise(line) == Lower(Strip(line))

\* what ask_for_choice makes of each line typed
Normalised == [line \in RawInputs |-> Normalise(line)]

\* ask_for_choice: `raw in ("q", "s") or raw in LETTER_KEYS`
IsChoice(text) ==
    /\ Len(text) = 1
    /\ \/ text[1] \in {"q", "s"}
       \/ \E i \in 1..Len(LETTER_KEYS) : LETTER_KEYS[i] = text[1]

\* the orders random.shuffle can leave a list of NumQuestions items in
IndexOrders ==
    {p \in [1..NumQuestions -> 1..NumQuestions] :
        \A i, j \in 1..NumQuestions : p[i] = p[j] => i = j}

\* Shuffles drawing each place independently (random.choices)
ShufflesWithRepeats(list) ==
    {[i \in 1..Len(list) |-> list[p[i]]] : p \in [1..Len(list) -> 1..Len(list)]}

\* `shuffled = questions[:]; random.shuffle(shuffled)`
Shuffles(list) == {[i \in 1..Len(list) |-> list[p[i]]] : p \in IndexOrders}

\* the for loop moves on: prints the next question of the pass and blocks in
\* input(), or leaves the loop when the pass is over
MoveOn(lines) ==
    IF pos < Len(shuffled)
    THEN /\ pos' = pos + 1
         /\ presented' = Append(presented, shuffled[pos + 1])
         /\ out' = Append(lines, QuestionLine(shuffled[pos + 1]))
         /\ pc' = "Ask"
    ELSE /\ pc' = "Loop"
         /\ out' = lines
         /\ UNCHANGED <<pos, presented>>

\* top of `while True`: copy, shuffle, print the first question, block in input()
StartPass ==
    /\ pc = "Loop"
    /\ \E order \in Shuffles(questions) :
          /\ shuffled' = order
          /\ pos' = 1
          /\ presented' = <<order[1]>>
          /\ out' = Append(out, QuestionLine(order[1]))
    /\ pc' = "Ask"
    /\ UNCHANGED <<questions, score, total_answered, raw, choice, letter_inputs>>
    /\ UNCHANGED apiVars

\* a line that ask_for_choice rejects: guidance, and input() again
EnterInvalid ==
    /\ pc = "Ask"
    /\ \E line \in RawInputs :
          /\ ~IsChoice(Normalised[line])
          /\ raw' = line
    /\ out' = <<GuidanceLine>>
    /\ UNCHANGED <<pc, questions, shuffled, pos, score, total_answered, choice,
                   presented, letter_inputs>>
    /\ UNCHANGED apiVars

\* EnterQuit with the two numbers of the tally swapped
EnterQuitTallySwapped ==
    /\ pc = "Ask"
    /\ \E line \in RawInputs :
          /\ IsChoice(Normalised[line])
          /\ Normalised[line][1] = "q"
          /\ raw' = line
    /\ choice' = "q"
    /\ out' = <<ExitLine(score, total_answered)>>
    /\ pc' = "Terminated"
    /\ UNCHANGED <<questions, shuffled, pos, score, total_answered, presented,
                   letter_inputs>>
    /\ UNCHANGED apiVars

\* `if choice == "q"`: the tally, and return
EnterQuit ==
    /\ pc = "Ask"
    /\ \E line \in RawInputs :
          /\ IsChoice(Normalised[line])
          /\ Normalised[line][1] = "q"
          /\ raw' = line
    /\ choice' = "q"
    /\ out' = <<ExitLine(total_answered, score)>>
    /\ pc' = "Terminated"
    /\ UNCHANGED <<questions, shuffled, pos, score, total_answered, presented,
                   letter_inputs>>
    /\ UNCHANGED apiVars

\* EnterSkip with the skip counted as an answer
EnterSkipCounted ==
    /\ pc = "Ask"
    /\ total_answered < MaxAnswered
    /\ \E line \in RawInputs :
          /\ IsChoice(Normalised[line])
          /\ Normalised[line][1] = "s"
          /\ raw' = line
    /\ choice' = "s"
    /\ total_answered' = total_answered + 1
    /\ MoveOn(<<SkippedLine>>)
    /\ UNCHANGED <<questions, shuffled, score, letter_inputs>>
    /\ UNCHANGED apiVars

\* `if choice == "s"`: "Skipped.", and continue
EnterSkip ==
    /\ pc = "Ask"
    /\ \E line \in RawInputs :
          /\ IsChoice(Normalised[line])
          /\ Normalised[line][1] = "s"
          /\ raw' = line
    /\ choice' = "s"
    /\ MoveOn(<<SkippedLine>>)
    /\ UNCHANGED <<questions, shuffled, score, total_answered, letter_inputs>>
    /\ UNCHANGED apiVars

\* EnterLetter with `total_answered += 1` moved into the correct branch
EnterLetterCountedWhenCorrect ==
    /\ pc = "Ask"
    /\ total_answered < MaxAnswered
    /\ \E line \in RawInputs :
          /\ IsChoice(Normalised[line])
          /\ Normalised[line][1] \notin {"q", "s"}
          /\ raw' = line
          /\ choice' = Normalised[line][1]
    /\ letter_inputs' = letter_inputs + 1
    /\ LET q == shuffled[pos]
       IN  IF choice' = QuestionAt(q).correct_option_key
           THEN /\ total_answered' = total_answered + 1
                /\ score' = score + 1
                /\ MoveOn(<<CorrectLine, ExplanationLine(q),
                            ScoreLine(score', total_answered')>>)
           ELSE /\ total_answered' = total_answered
                /\ score' = score
                /\ MoveOn(<<IncorrectLine(q), ExplanationLine(q),
                            ScoreLine(score', total_answered')>>)
    /\ UNCHANGED <<questions, shuffled>>
    /\ UNCHANGED apiVars

\* a letter: count it, compare it with the key, print the feedback
EnterLetter ==
    /\ pc = "Ask"
    /\ total_answered < MaxAnswered
    /\ \E line \in RawInputs :
          /\ IsChoice(Normalised[line])
          /\ Normalised[line][1] \notin {"q", "s"}
          /\ raw' = line
          /\ choice' = Normalised[line][1]
    /\ letter_inputs' = letter_inputs + 1
    /\ total_answered' = total_answered + 1
    /\ LET q == shuffled[pos]
       IN  IF choice' = QuestionAt(q).correct_option_key
           THEN /\ score' = score + 1
                /\ MoveOn(<<CorrectLine, ExplanationLine(q),
                            ScoreLine(score', total_answered')>>)
           ELSE /\ score' = score
                /\ MoveOn(<<IncorrectLine(q), ExplanationLine(q),
                            ScoreLine(score', total_answered')>>)
    /\ UNCHANGED <<questions, shuffled>>
    /\ UNCHANGED apiVars

(***************************************************************************)
(* The two programs: the API server (main.py) and the quiz (chatbot.py).   *)
(***************************************************************************)
Init ==
    /\ request = NoRequest
    /\ routed = ""
    /\ response = NoResponse
    \* run_quiz_loop up to `while True`
    /\ questions = [i \in 1..NumQuestions |-> i - 1]
    /\ score = 0
    /\ total_answered = 0
    /\ out = <<GreetingLine>>
    /\ pc = "Loop"
    /\ shuffled = <<>>
    /\ pos = 0
    /\ raw = NoInput
    /\ choice = ""
    /\ presented = <<>>
    /\ letter_inputs = 0

NextApi ==
    \/ RequestRoot
    \/ RequestHealth
    \/ RequestStats
    \/ RequestQuestions
    \/ RequestQuestion
    \/ RequestRandom
    \/ RequestDetail
    \/ RequestSubmit
    \/ RequestUnrouted
    \/ Close

NextCli ==
    \/ StartPass
    \/ EnterInvalid
    \/ EnterQuit
    \/ EnterSkip
    \/ EnterLetter

SpecApi == Init /\ [][NextApi]_vars
SpecCli == Init /\ [][NextCli]_vars

(***************************************************************************)
(* Properties of the API.                                                  *)
(***************************************************************************)
DigitChars == <<"0", "1", "2", "3", "4", "5", "6", "7", "8", "9">>

RECURSIVE NatText(_)
NatText(n) ==
    IF n < 10 THEN <<DigitChars[n + 1]>>
    ELSE Append(NatText(n \div 10), DigitChars[(n % 10) + 1])

\* the decimal text of an integer, as a client writes it in a URL
DecimalText(n) == IF n < 0 THEN <<"-">> \o NatText(0 - n) ELSE NatText(n)

RECURSIVE Pow10(_)
Pow10(k) == IF k = 0 THEN 1 ELSE 10 * Pow10(k - 1)

\* the integers whose decimal text fits the {question_id} segment
UrlIds == (1 - Pow10(MaxSegLen - 1))..(Pow10(MaxSegLen) - 1)
ValidIds == 0..(NumQuestions - 1)
Letters == {"a", "b", "c", "d"}
LetterPosition == [a |-> 1, b |-> 2, c |-> 3, d |-> 4]

\* the decimal text of each such integer
UrlText == [n \in UrlIds |-> DecimalText(n)]

IsSubmit == request.method = "POST" /\ request.path = SubmitPath
SubmitOf(n, letter) == Post(SubmitPath, [question_id |-> n, answer |-> <<letter>>])

\* a submit with both fields, the answer one of the letters a..d
IsLetterSubmit ==
    /\ IsSubmit
    /\ DOMAIN request.body = {"question_id", "answer"}
    /\ request.body.answer \in {<<l>> : l \in Letters}

\* GET /api/questions/<text> and GET /api/questions/<text>/detail
IsPlainGet == request.method = "GET" /\ Len(request.path) = 3
                /\ request.path[1] = SegApi /\ request.path[2] = SegQuestions
IsDetailGet == request.method = "GET" /\ Len(request.path) = 4
                 /\ request.path[1] = SegApi /\ request.path[2] = SegQuestions
                 /\ request.path[4] = SegDetail
AsksFor(n) == request.path[3] = UrlText[n]

\* the response carries nothing of a question
NoQuestionData ==
    DOMAIN response.body \cap
      {"id", "question_text", "options", "correct_option_key", "explanation",
       "is_correct", "correct_answer", "correct_answer_text"} = {}

Is404 == response.status = 404 /\ NoQuestionData

\* C1 as stated: for every question_id outside [0, N-1], negative or >= N, the
\* plain, the detail and the submit endpoint each answer 404 without question data
\* (the submitted answer being a well-formed letter).
C1_AllThreeAnswer404 ==
    /\ (IsPlainGet \/ IsDetailGet) =>
          \A n \in UrlIds \ ValidIds : AsksFor(n) => Is404
    /\ (IsLetterSubmit /\ request.body.question_id \notin ValidIds) => Is404

\* C1, amended: for every question_id >= N the three endpoints answer 404 without
\* question data; for every negative question_id the plain and the detail endpoint
\* answer 404 without question data, and the submit endpoint rejects the body with
\* a validation error (422) on question_id, again without question data.
C1_OutOfRangeIsRejected ==
    /\ (IsPlainGet \/ IsDetailGet) =>
          \A n \in UrlIds \ ValidIds : AsksFor(n) => Is404
    /\ (IsLetterSubmit /\ request.body.question_id \notin ValidIds) =>
          IF request.body.question_id >= NumQuestions
          THEN Is404
          ELSE /\ response.status = 422
               /\ response.body.detail =
                     {[loc |-> <<"body", "question_id">>, type |-> "greater_than_equal"]}
               /\ NoQuestionData

\* submitting the first id past the bank is answered 404
C1_Witness ==
    /\ request = SubmitOf(NumQuestions, "a")
    /\ response.status = 404

\* C2 as stated: every GET /api/questions/random is served by the random endpoint
\* and succeeds with a question-without-answer of the bank, its id in [0, N-1].
C2_RandomIsServed ==
    request = Get(RandomPath) =>
       /\ routed = "get_random_question"
       /\ response.status = 200
       /\ DOMAIN response.body = {"id", "question_text", "options"}
       /\ response.body.id \in ValidIds
       /\ response.body.question_text = QUESTIONS[response.body.id + 1].question_text
       /\ response.body.options = QUESTIONS[response.body.id + 1].options

\* C3: for every id in [0, N-1] and every letter a..d, submit answers 200 with
\* is_correct true exactly when the letter is the question's correct_option_key,
\* correct_answer that key and correct_answer_text the option at the key's position.
C3_SubmitVerdict ==
    (IsLetterSubmit /\ request.body.question_id \in ValidIds) =>
       LET q == QUESTIONS[request.body.question_id + 1]
       IN  /\ response.status = 200
           /\ response.body.is_correct = (request.body.answer = <<q.correct_option_key>>)
           /\ response.body.correct_answer = q.correct_option_key
           /\ response.body.correct_answer_text =
                 q.options[LetterPosition[q.correct_option_key]]

\* the first question answered "c": correct, and the text is ".py"
C3_Witness ==
    /\ request = SubmitOf(0, "c")
    /\ response.body =
          [is_correct |-> TRUE, correct_answer |-> "c", correct_answer_text |-> ".py",
           explanation |-> ".py is the standard extension for Python source files."]

IsPlain(entry, n) ==
    /\ DOMAIN entry = {"id", "question_text", "options"}
    /\ entry.id = n
    /\ entry.question_text = QUESTIONS[n + 1].question_text
    /\ entry.options = QUESTIONS[n + 1].options

\* C4: for every id in [0, N-1] the plain endpoint, and every element of the list
\* endpoint, carries id, question_text and options only; the detail endpoint also
\* carries correct_option_key and explanation, those of the bank entry at that id.
C4_AnswerOnlyInDetail ==
    /\ IsPlainGet =>
          \A n \in ValidIds :
             AsksFor(n) => (response.status = 200 /\ IsPlain(response.body, n))
    /\ IsDetailGet =>
          \A n \in ValidIds :
             AsksFor(n) =>
                /\ response.status = 200
                /\ DOMAIN response.body =
                      {"id", "question_text", "options", "correct_option_key", "explanation"}
                /\ response.body.id = n
                /\ response.body.correct_option_key = QUESTIONS[n + 1].correct_option_key
                /\ response.body.explanation = QUESTIONS[n + 1].explanation
    /\ request = Get(<<SegApi, SegQuestions>>) =>
          /\ response.status = 200
          /\ Len(response.body) = NumQuestions
          /\ \A i \in 1..NumQuestions : IsPlain(response.body[i], i - 1)

\* the detail of the last question has been served
C4_Witness ==
    /\ request = Get(DetailPath(DecimalText(NumQuestions - 1)))
    /\ response.status = 200
    /\ response.body.correct_option_key = "c"

\* the fields of a submitted body that break the declared shape
BadFields(body) ==
    {f \in {"question_id"} : f \notin DOMAIN body \/ body.question_id < 0}
    \cup {f \in {"answer"} : f \notin DOMAIN body \/ body.answer \notin {<<l>> : l \in Letters}}

\* C5: a submit whose body breaks the shape (answer not one lowercase letter a..d,
\* question_id negative, a field missing) is rejected with a 4xx validation error
\* naming the offending fields and carries no verdict; only a body of the right
\* shape is answered by the bounds check (404) or with a verdict (200).
C5_ShapeBeforeBounds ==
    IsSubmit =>
       IF BadFields(request.body) # {}
       THEN /\ response.status \in 400..499
            /\ response.status # 404
            /\ {e.loc : e \in response.body.detail} =
                  {<<"body", f>> : f \in BadFields(request.body)}
            /\ NoQuestionData
       ELSE /\ response.status = (IF request.body.question_id >= NumQuestions
                                  THEN 404 ELSE 200)
            /\ (response.status = 200) = ("is_correct" \in DOMAIN response.body)

\* an uppercase letter for a valid id is rejected
C5_Witness ==
    /\ request = Post(SubmitPath, [question_id |-> 0, answer |-> <<"C">>])
    /\ response.status = 422

(***************************************************************************)
(* Properties of the quiz loop. A step taken while pc = "Ask" is the       *)
(* handling of the line raw'.                                              *)
(***************************************************************************)
Tokens == {"a", "b", "c", "d", "q", "s"}
Capital == [a |-> "A", b |-> "B", c |-> "C", d |-> "D", q |-> "Q", s |-> "S"]
Blank == {" ", "\t"}

\* line is token t, in either case, with blanks around it
IsVariant(line, t) ==
    \E i \in 1..Len(line) :
       /\ line[i] \in {t, Capital[t]}
       /\ \A j \in (1..Len(line)) \ {i} : line[j] \in Blank

\* the token a line stands for, "" if none
TokenOf(line) ==
    IF \E t \in Tokens : IsVariant(line, t)
    THEN CHOOSE t \in Tokens : IsVariant(line, t)
    ELSE ""

Kinds(lines) == {lines[i].kind : i \in 1..Len(lines)}
FeedbackKinds == {"Correct", "Incorrect", "Explanation", "Score"}

\* C6: at any prompt a line standing for q terminates the loop and prints the
\* tally (total_answered, score) of that moment, (0, 0) if it is the first line
\* read; no other line and no other step terminates it.
C6_QuitOnlyByQ ==
    [][ /\ (pc = "Ask" /\ TokenOf(raw') = "q") =>
             /\ pc' = "Terminated"
             /\ Len(out') = 1
             /\ out'[1].kind = "Exit"
             /\ out'[1].n1 = total_answered
             /\ out'[1].n2 = score
             /\ raw = NoInput => (out'[1].n1 = 0 /\ out'[1].n2 = 0)
        /\ pc' = "Terminated" => (pc = "Ask" /\ TokenOf(raw') = "q")
        /\ (pc = "Ask" /\ TokenOf(raw') # "q") => pc' \in {"Ask", "Loop"} ]_vars

\* quitting after two answers, one of them right
C6_Witness ==
    /\ pc = "Terminated"
    /\ out = <<[kind |-> "Exit", n1 |-> 2, n2 |-> 1, s1 |-> "", s2 |-> ""]>>

C8_LetterCounts ==
    /\ [][ (pc = "Ask" /\ TokenOf(raw') \in Letters) =>
             /\ total_answered' = total_answered + 1
             /\ score' = IF TokenOf(raw') = QUESTIONS[shuffled[pos] + 1].correct_option_key
                         THEN score + 1 ELSE score ]_vars
    /\ [](0 <= score /\ score <= total_answered /\ total_answered = letter_inputs)

\* two letters entered, one of them right
C8_Witness ==
    /\ total_answered = 2
    /\ score = 1
    /\ letter_inputs = 2

\* C9: a line that stands for no token brings the guidance message and the same
\* prompt again, with the question, the position in the pass, score and
\* total_answered as they were; a line that differs from a token only in case or
\* in blanks around it is taken as that token.
C9_InvalidReprompts ==
    [][ pc = "Ask" =>
          IF TokenOf(raw') = ""
          THEN /\ out' = <<[kind |-> "Guidance", n1 |-> 0, n2 |-> 0, s1 |-> "", s2 |-> ""]>>
               /\ UNCHANGED <<pc, questions, shuffled, pos, score, total_answered,
                              presented, choice>>
          ELSE /\ choice' = TokenOf(raw')
               /\ "Guidance" \notin Kinds(out') ]_vars

\* " C " taken as the answer c
C9_Witness ==
    /\ raw = <<" ", "C", " ">>
    /\ choice = "c"
    /\ total_answered = 1
    /\ "Score" \in Kinds(out)

NoRepeats(list) == \A i, j \in 1..Len(list) : list[i] = list[j] => i = j

\* C10: the questions of a pass are presented without repetition and a pass that
\* ends has presented all N of them; a new order is drawn only at the start and
\* after all N of the pass were presented; the bank keeps its original order.
C10_FullPasses ==
    /\ [](questions = <<0, 1, 2, 3, 4>>)
    /\ [](NoRepeats(presented) /\ presented = SubSeq(shuffled, 1, pos))
    /\ []((pc = "Loop" /\ presented # <<>>) =>
             {presented[i] : i \in 1..Len(presented)} = ValidIds)
    /\ [][ (shuffled' # shuffled
              \/ (presented' # presented /\ Len(presented') <= Len(presented))) =>
             /\ pc = "Loop"
             /\ Len(presented) \in {0, NumQuestions}
             /\ Len(presented') = 1 ]_vars

\* a pass in another order than the bank's is over, one question answered
C10_Witness ==
    /\ pc = "Loop"
    /\ Len(presented) = NumQuestions
    /\ presented # questions
    /\ total_answered = 1

====
